---------------------------- MODULE Spec2Model ----------------------------
(***************************************************************************)
(* State-machine model of src/smart_pointers.hpp: the control blocks       *)
(* (SharedPtr<T>::BasePtrCounter and its two variants), the SharedPtr      *)
(* handles, the WeakPtr handles and MakeShared.                            *)
(*                                                                         *)
(* A block is identified by a number 1..MaxBlocks; 0 is nullptr.  Block    *)
(* numbers are never reused: the history of a block (how often destroy()   *)
(* and deallocate() ran on it) stays observable.                           *)
(*                                                                         *)
(* Addresses.  Address b in 1..MaxBlocks is the allocation whose pointer    *)
(* block b was constructed with: the object of `new Y`, or, for MakeShared, *)
(* the NonDirectPtrCounter that MakeShared allocated.  The T object         *)
(* embedded in that NonDirectPtrCounter (its member ptr_obj_) lies at       *)
(* another address, EmbeddedObject(b).  0 is the null pointer.              *)
(*                                                                         *)
(* Overload resolution.  WeakPtr declares only member templates for copy   *)
(* construction and copy assignment, and a template is never a copy        *)
(* constructor or a copy assignment operator: between two WeakPtr<T> of    *)
(* one type the implicitly-declared, memberwise copy operations are        *)
(* selected, and the templates only between WeakPtr of different types.    *)
(* MakeShared passes a pointer to NonDirectPtrCounter, for which the       *)
(* constructor template SharedPtr(Y* ptr) with Y = NonDirectPtrCounter is  *)
(* the exact match.                                                        *)
(*                                                                         *)
(* Members that no instantiation accepts.  WeakPtr::lock() has a           *)
(* conditional expression whose operands are a std::runtime_error and a    *)
(* block pointer, and both WeakPtr::operator= templates call               *)
(* get_ptr_counter() / reset_ptr_counter() on a WeakPtr, which has no such *)
(* members.  They are modelled by what their statements say: the operands  *)
(* of the conditional are the two results of lock(), and the two calls are *)
(* the read and the reset of other_ptr.ptr_counter_.                       *)
(*                                                                         *)
(* Undefined behaviour.  A step that reads or writes a block whose storage  *)
(* was deallocated, that calls a member through nullptr, or that applies   *)
(* delete to an object that no new-expression made, has undefined          *)
(* behaviour.  Such a step is modelled with every outcome its code can     *)
(* take: a count read from freed storage is any value (Observed), a write  *)
(* to freed storage is lost, a call through nullptr traps or goes          *)
(* unnoticed.  The step records the kind of undefined behaviour in ub, and *)
(* no step is modelled after it: nothing can be said of the program from   *)
(* there on.  The one exception is destroy() called by the caller on a     *)
(* NonDirectPtrCounter: operator delete aborts on the address it is given, *)
(* or takes it, and the run in which it takes it goes on.                  *)
(***************************************************************************)
EXTENDS Naturals, FiniteSets, TLC

\* ------------------------------------------------------------------ bounds
NumShared == 2      \* SharedPtr objects the program declares
NumWeak == 2        \* WeakPtr objects the program declares
MaxBlocks == 2      \* control blocks allocated over a run
MaxWeakCount == 2   \* cap on weak_count_ (guards of the incrementing steps)
CallCap == 2        \* destroy()/deallocate() call counters saturate here
MaxGarbage == 1     \* values a count read from freed storage may take: 0..MaxGarbage
CountBits == 4      \* modelled width of shared_count_ and weak_count_ (uint32_t)

SharedIds == 1..NumShared
WeakIds == 1..NumWeak
BlockIds == 1..MaxBlocks
NullBlock == 0

VARIABLES
  blk,      \* blk[b]: the control block b (BasePtrCounter and its variant's fields)
  sp,       \* sp[h]: the SharedPtr object h
  wp,       \* wp[w]: the WeakPtr object w
  ub,       \* "none", or the undefined behaviour the last step ran into
  last,     \* the operation that produced this state, its operands and result
  decl      \* the types the program declares its handles with: whether the
            \* SharedPtr objects, and whether the WeakPtr objects, are of one type

vars == <<blk, sp, wp, ub, last, decl>>

\* The static type T of SharedPtr<T> object h: all SharedPtr<Derived>, or one
\* SharedPtr<Base> and the rest SharedPtr<Derived>.
SlotType(h) == IF h = 1 /\ ~decl.shared_same THEN "Base" ELSE "Derived"

\* Whether WeakPtr objects w and v have the same type.
SameWeakType(w, v) == w = v \/ decl.weak_same

\* ------------------------------------------------------------ control block
\* BasePtrCounter: shared_count_ = 0, weak_count_ = 0 on construction.
\* variant: the block's class; family: the T of its SharedPtr<T>::BasePtrCounter;
\* pointee: what ptr_ was given, an "object" or a "NonDirectPtrCounter";
\* self_weak: whether the managed object has a WeakPtr on this block as a member;
\* deleted: how often destroy() has applied its deleter to a non-null pointer.
NoBlock ==
  [allocated |-> FALSE, variant |-> "none", family |-> "none", pointee |-> "none",
   shared_count |-> 0, weak_count |-> 0, ptr |-> 0, self_weak |-> FALSE,
   destroy_calls |-> 0, dealloc_calls |-> 0, deleted |-> 0]

NewBlock(b, v, fam, pt) ==
  [allocated |-> TRUE, variant |-> v, family |-> fam, pointee |-> pt,
   shared_count |-> 0, weak_count |-> 0, ptr |-> b, self_weak |-> FALSE,
   destroy_calls |-> 0, dealloc_calls |-> 0, deleted |-> 0]

\* The address of the member ptr_obj_ of the NonDirectPtrCounter at address b.
EmbeddedObject(b) == b + MaxBlocks

\* The storage the library took from std::allocator to make block b: the
\* block itself, and the NonDirectPtrCounter of MakeShared when ptr_ points
\* to one.
AllocationsFor(B, b) ==
  IF B[b].variant = "Direct" /\ B[b].pointee = "NonDirectPtrCounter" THEN 2 ELSE 1

Released(B, b) == B[b].dealloc_calls > 0

Saturate(n) == IF n < CallCap THEN n + 1 ELSE CallCap

\* Variant of DecrementShared in which the decrement is lost.
DecrementShared_Lost(B, b) == B

\* The counts are unsigned: ++ and -- are modulo 2^width, and -- at 0 yields
\* the largest value.
CountModulus == 2 ^ CountBits
CountMax == CountModulus - 1

\* increment_shared_count / decrement_shared_count / increment_weak_count /
\* decrement_weak_count: plain ++ and -- on the block's fields.
IncrementShared(B, b) ==
  IF Released(B, b) THEN B
  ELSE [B EXCEPT ![b].shared_count = (@ + 1) % CountModulus]

DecrementShared(B, b) ==
  IF Released(B, b) THEN B
  ELSE [B EXCEPT ![b].shared_count = (@ + CountMax) % CountModulus]

IncrementWeak(B, b) ==
  IF Released(B, b) THEN B
  ELSE [B EXCEPT ![b].weak_count = (@ + 1) % CountModulus]

DecrementWeak(B, b) ==
  IF Released(B, b) THEN B
  ELSE [B EXCEPT ![b].weak_count = (@ + CountMax) % CountModulus]

\* What get_shared_count() / get_weak_count() can return for block b:
\* <<shared, weak, late>>, where late is what get_weak_count() returns when the
\* storage is deallocated between the two reads, which the destructor of an
\* object that has a WeakPtr on its own block can do.
Observed(B, b) ==
  IF Released(B, b)
    THEN (0..MaxGarbage) \X (0..MaxGarbage) \X {0}
    ELSE {<<B[b].shared_count, B[b].weak_count, late>> :
            late \in (IF B[b].self_weak THEN 0..MaxGarbage ELSE {0})}

\* get_ptr(): DirectPtrCounter returns ptr_, NonDirectPtrCounter &ptr_obj_.
GetPtr(B, b) == IF B[b].variant = "Direct" THEN B[b].ptr ELSE EmbeddedObject(b)

\* deallocate(): hands the block's storage back to the allocator.
Deallocate(B, b) == [B EXCEPT ![b].dealloc_calls = Saturate(@)]

\* Variant of WeakDtor that deallocates as soon as the weak count is 0.
WeakDtor_IgnoresStrongCount(B, b, o) ==
  IF b # NullBlock
    THEN LET dec == o[2] > 0
             B1 == IF dec THEN DecrementWeak(B, b) ELSE B
             w1 == IF dec THEN o[2] - 1 ELSE o[2]
         IN IF w1 = 0 THEN Deallocate(B1, b) ELSE B1
    ELSE B

\* WeakPtr<T>::~WeakPtr() on block b
WeakDtor(B, b, o) ==
  IF b # NullBlock
    THEN LET dec == o[2] > 0
             B1 == IF dec THEN DecrementWeak(B, b) ELSE B
             w1 == IF dec THEN o[2] - 1 ELSE o[2]
         IN IF w1 = 0 /\ o[1] = 0 THEN Deallocate(B1, b) ELSE B1
    ELSE B

\* The destructor of the managed object, which destroy() runs: it destroys the
\* members of the object, among them the WeakPtr on block b when the object
\* has one.
ObjectDtor(B, b) ==
  IF B[b].self_weak
    THEN WeakDtor([B EXCEPT ![b].self_weak = FALSE], b,
                  <<B[b].shared_count, B[b].weak_count>>)
    ELSE B

\* destroy(): DirectPtrCounter deletes ptr_ and nulls it (for a pointee of
\* class NonDirectPtrCounter that destroys the embedded object and frees the
\* NonDirectPtrCounter); NonDirectPtrCounter applies the deleter to the
\* embedded object.  The deleter is std::default_delete: a delete-expression,
\* which does nothing for nullptr and else runs the destructor and hands the
\* address to operator delete.
Destroy(B, b) ==
  LET B1 == ObjectDtor(B, b) IN
    [B1 EXCEPT ![b].destroy_calls = Saturate(@),
               ![b].deleted = IF B[b].variant = "Direct" /\ B[b].ptr = 0
                                THEN @ ELSE Saturate(@),
               ![b].ptr = IF B[b].variant = "Direct" THEN 0 ELSE @]

\* dynamic_cast<SharedPtr<T>::BasePtrCounter*>(p): p when the block's dynamic
\* type derives from SharedPtr<T>::BasePtrCounter, nullptr otherwise.
DynamicCast(B, b, T) ==
  IF b # NullBlock /\ B[b].family = T THEN b ELSE NullBlock

FreshBlock == CHOOSE b \in BlockIds :
                ~blk[b].allocated /\ \A c \in BlockIds : c < b => blk[c].allocated

HasFreshBlock == \E b \in BlockIds : ~blk[b].allocated

\* ------------------------------------------------------------------ handles
\* A SharedPtr / WeakPtr object is the value of its data members.  A slot whose
\* object has been destroyed and a slot holding a default-constructed object are
\* the same value: ~SharedPtr() and ~WeakPtr() do nothing for nullptr.  A
\* constructor acts on a slot whose previous object is gone.
EmptyShared == [ptr_counter |-> NullBlock, ptr |-> 0]
EmptyWeak == [ptr_counter |-> NullBlock]

NoOp == [op |-> "Init", dst |-> 0, src |-> 0, res |-> "none"]
Did(o, d, s, r) == [op |-> o, dst |-> d, src |-> s, res |-> r]

\* SharedPtr<T>::get()
Get(B, s) ==
  IF s.ptr # 0 THEN s.ptr
  ELSE IF s.ptr_counter # NullBlock THEN GetPtr(B, s.ptr_counter) ELSE 0

\* SharedPtr<T>::use_count(), for a value o = <<shared, weak>> read from the block
UseCount(s, o) == IF s.ptr_counter # NullBlock THEN o[1] ELSE 0

\* Variant of SharedDtor that destroys the object only when no WeakPtr is left.
SharedDtor_DestroyWhenUnobserved(B, b, o) ==
  IF b # NullBlock /\ o[1] > 0
    THEN LET B1 == DecrementShared(B, b) IN
         IF o[1] - 1 = 0 /\ o[2] = 0 THEN Deallocate(Destroy(B1, b), b) ELSE B1
    ELSE B

\* get_weak_count() at line 244, after destroy() has made B2 of B: the count
\* in the block, or for storage that is gone what was read from it.
WeakCountAfterDestroy(B, B2, b, o) ==
  IF Released(B, b) THEN o[2]
  ELSE IF Released(B2, b) THEN o[3]
  ELSE B2[b].weak_count

\* SharedPtr<T>::~SharedPtr() on block b, o = <<get_shared_count(), get_weak_count()>>
SharedDtor(B, b, o) ==
  IF b # NullBlock /\ o[1] > 0
    THEN LET B1 == DecrementShared(B, b) IN
         IF o[1] - 1 = 0
           THEN LET B2 == Destroy(B1, b) IN
                IF WeakCountAfterDestroy(B, B2, b, o) = 0
                  THEN Deallocate(B2, b) ELSE B2
           ELSE B1
    ELSE B

\* The values a destructor can read from block b (none to read for nullptr).
Reads(B, b) == IF b = NullBlock THEN {<<0, 0, 0>>} ELSE Observed(B, b)

\* ------------------------------------------------------ undefined behaviour
\* Dereferencing block pointer b in heap B: freed storage is a use after free.
Deref(B, b) ==
  IF b # NullBlock /\ Released(B, b) THEN "use_after_free" ELSE "none"

\* NonDirectPtrCounter::destroy() applies std::default_delete<T> to the address
\* of the member ptr_obj_, which no allocation returned.  DirectPtrCounter's
\* delete of ptr_ releases what `new Y` or std::allocator<NonDirectPtrCounter>
\* obtained from operator new.
DestroyUb(B, b) ==
  IF B[b].variant = "Combined" THEN "invalid_delete" ELSE "none"

\* The first undefined behaviour of two consecutive parts of a step.
First(u1, u2) == IF u1 # "none" THEN u1 ELSE u2

\* What ~SharedPtr() on block b runs into, having read o from the block.
SharedDtorUb(B, b, o) ==
  IF b = NullBlock THEN "none"
  ELSE IF Released(B, b) THEN "use_after_free"
  ELSE IF o[1] = 1
    THEN First(DestroyUb(B, b),
               IF Released(Destroy(DecrementShared(B, b), b), b)
                 THEN "use_after_free" ELSE "none")
    ELSE "none"

Init ==
  /\ blk = [b \in BlockIds |-> NoBlock]
  /\ sp = [h \in SharedIds |-> EmptyShared]
  /\ wp = [w \in WeakIds |-> EmptyWeak]
  /\ ub = "none"
  /\ last = NoOp
  /\ decl \in [shared_same : BOOLEAN, weak_same : BOOLEAN]

\* --------------------------------------------------------- SharedPtr steps
\* SharedPtr<T>::SharedPtr()
DefaultShared(h) ==
  /\ ub = "none" /\ sp[h] = EmptyShared
  /\ sp' = [sp EXCEPT ![h] = EmptyShared]
  /\ last' = Did("DefaultShared", h, 0, "none")
  /\ UNCHANGED <<blk, wp, ub, decl>>

\* SharedPtr<T>::SharedPtr(Y* ptr) with a newly allocated object
RawShared(h) ==
  /\ ub = "none" /\ sp[h] = EmptyShared /\ HasFreshBlock
  /\ LET b == FreshBlock
         B1 == [blk EXCEPT ![b] = NewBlock(b, "Direct", SlotType(h), "object")]
     IN /\ blk' = IncrementShared(B1, b)
        /\ sp' = [sp EXCEPT ![h] = [ptr_counter |-> b, ptr |-> b]]
        /\ last' = Did("RawShared", h, 0, "none")
  /\ UNCHANGED <<wp, ub, decl>>

\* SharedPtr<T>::SharedPtr(BasePtrCounter* ptr_counter): the handle built on b
FromBlock(B, b) ==
  [ptr_counter |-> b, ptr |-> IF b # NullBlock THEN GetPtr(B, b) ELSE 0]

\* SharedPtr<T> h(g.get_ptr_counter()): SharedPtr(BasePtrCounter*) applied to
\* the block pointer that another SharedPtr<T> hands out.
BlockShared(h, g) ==
  /\ ub = "none" /\ sp[h] = EmptyShared /\ h # g /\ SlotType(h) = SlotType(g)
  /\ LET b == sp[g].ptr_counter IN
       /\ sp' = [sp EXCEPT ![h] = FromBlock(blk, b)]
       /\ blk' = IF b # NullBlock THEN IncrementShared(blk, b) ELSE blk
       /\ ub' = Deref(blk, b)
  /\ last' = Did("BlockShared", h, g, "none")
  /\ UNCHANGED <<wp, decl>>

\* MakeShared<T>(args...): allocate and construct a NonDirectPtrCounter, build
\* `ptr` from the NonDirectPtrCounter* temp_ptr, move `ptr` into the result,
\* destroy the moved-from `ptr`.  SharedPtr(Y* ptr) with Y = NonDirectPtrCounter
\* is the constructor that temp_ptr selects: it allocates a
\* DirectPtrCounter<NonDirectPtrCounter> around temp_ptr and keeps
\* reinterpret_cast<T*>(temp_ptr) as ptr_.
MakeShared(h) ==
  /\ ub = "none" /\ sp[h] = EmptyShared /\ HasFreshBlock
  /\ LET b == FreshBlock
         B1 == [blk EXCEPT ![b] = NewBlock(b, "Direct", SlotType(h),
                                          "NonDirectPtrCounter")]
         tmp == [ptr_counter |-> b, ptr |-> b]
         B2 == IncrementShared(B1, b)
         moved == EmptyShared
     IN /\ blk' = SharedDtor(B2, moved.ptr_counter, <<0, 0>>)
        /\ sp' = [sp EXCEPT ![h] = [ptr_counter |-> tmp.ptr_counter,
                                    ptr |-> Get(B2, tmp)]]
        /\ last' = Did("MakeShared", h, 0, "none")
  /\ UNCHANGED <<wp, ub, decl>>

\* MakeShared<T>(args...) when the constructor of T throws: allocate() has
\* returned the storage of a NonDirectPtrCounter, construct() throws, and the
\* exception leaves MakeShared, which has no handler and no statement that
\* deallocates temp_ptr.  No object and no SharedPtr come into existence.
MakeSharedThrow(h) ==
  /\ ub = "none" /\ sp[h] = EmptyShared /\ HasFreshBlock
  /\ LET b == FreshBlock IN
       blk' = [blk EXCEPT ![b] = [NewBlock(b, "Combined", SlotType(h), "none")
                                    EXCEPT !.ptr = 0]]
  /\ last' = Did("MakeShared", h, 0, "throw")
  /\ UNCHANGED <<sp, wp, ub, decl>>

\* SharedPtr<T> h(c) for BasePtrCounter* c = new NonDirectPtrCounter(args...):
\* SharedPtr(BasePtrCounter*) on a NonDirectPtrCounter made by the caller.
CombinedShared(h) ==
  /\ ub = "none" /\ sp[h] = EmptyShared /\ HasFreshBlock
  /\ LET b == FreshBlock
         B1 == [blk EXCEPT ![b] = NewBlock(b, "Combined", SlotType(h), "object")]
     IN /\ blk' = IncrementShared(B1, b)
        /\ sp' = [sp EXCEPT ![h] = FromBlock(B1, b)]
        /\ last' = Did("CombinedShared", h, 0, "none")
  /\ UNCHANGED <<wp, ub, decl>>

\* h.get_ptr_counter()->destroy(): destroy() called on the block of h by the
\* caller.  When the delete-expression in it is given an address that no
\* new-expression returned, operator delete aborts or takes it unnoticed.
CallDestroy(h) ==
  /\ ub = "none" /\ sp[h].ptr_counter # NullBlock
  /\ LET b == sp[h].ptr_counter IN
       /\ blk' = Destroy(blk, b)
       /\ \/ ub' = First(Deref(blk, b), DestroyUb(blk, b))
          \/ ub' = Deref(blk, b)
  /\ last' = Did("CallDestroy", h, 0, "none")
  /\ UNCHANGED <<sp, wp, decl>>

\* SharedPtr<T>::SharedPtr(const SharedPtr& other_ptr)
CopyShared(h, g) ==
  /\ ub = "none" /\ sp[h] = EmptyShared /\ h # g /\ SlotType(h) = SlotType(g)
  /\ LET b == sp[g].ptr_counter IN
       /\ blk' = IF b # NullBlock THEN IncrementShared(blk, b) ELSE blk
       /\ sp' = [sp EXCEPT ![h] = [ptr_counter |-> b, ptr |-> Get(blk, sp[g])]]
       /\ ub' = Deref(blk, b)
  /\ last' = Did("CopyShared", h, g, "none")
  /\ UNCHANGED <<wp, decl>>

\* Variant of MoveShared that counts the destination as a further owner.
MoveShared_AsCopy(h, g) ==
  /\ ub = "none" /\ sp[h] = EmptyShared /\ h # g /\ SlotType(h) = SlotType(g)
  /\ LET b == sp[g].ptr_counter IN
       /\ blk' = IF b # NullBlock THEN IncrementShared(blk, b) ELSE blk
       /\ sp' = [sp EXCEPT ![h] = [ptr_counter |-> b, ptr |-> Get(blk, sp[g])],
                           ![g] = EmptyShared]
  /\ last' = Did("MoveShared", h, g, "none")
  /\ UNCHANGED <<wp, ub, decl>>

\* SharedPtr<T>::SharedPtr(SharedPtr&& other_ptr)
MoveShared(h, g) ==
  /\ ub = "none" /\ sp[h] = EmptyShared /\ h # g /\ SlotType(h) = SlotType(g)
  /\ sp' = [sp EXCEPT ![h] = [ptr_counter |-> sp[g].ptr_counter,
                              ptr |-> Get(blk, sp[g])],
                      ![g] = EmptyShared]
  /\ last' = Did("MoveShared", h, g, "none")
  /\ UNCHANGED <<blk, wp, ub, decl>>

\* Variant of CopyAssignShared without the test this != &other_ptr.
CopyAssignShared_NoSelfCheck(h, g) ==
  /\ ub = "none" /\ SlotType(h) = SlotType(g)
  /\ \E o \in Reads(blk, sp[h].ptr_counter) :
       LET B1 == SharedDtor(blk, sp[h].ptr_counter, o)
           b == sp[g].ptr_counter
       IN /\ blk' = IF b # NullBlock THEN IncrementShared(B1, b) ELSE B1
          /\ sp' = [sp EXCEPT ![h] = [ptr_counter |-> b, ptr |-> Get(B1, sp[g])]]
          /\ ub' = First(SharedDtorUb(blk, sp[h].ptr_counter, o), Deref(B1, b))
  /\ last' = Did("CopyAssignShared", h, g, "none")
  /\ UNCHANGED <<wp, decl>>

\* SharedPtr<T>::operator=(const SharedPtr& other_ptr)
CopyAssignShared(h, g) ==
  /\ ub = "none" /\ SlotType(h) = SlotType(g)
  /\ IF h # g
       THEN \E o \in Reads(blk, sp[h].ptr_counter) :
              LET B1 == SharedDtor(blk, sp[h].ptr_counter, o)
                  b == sp[g].ptr_counter
              IN /\ blk' = IF b # NullBlock THEN IncrementShared(B1, b) ELSE B1
                 /\ sp' = [sp EXCEPT ![h] = [ptr_counter |-> b,
                                             ptr |-> Get(B1, sp[g])]]
                 /\ ub' = First(SharedDtorUb(blk, sp[h].ptr_counter, o),
                                Deref(B1, b))
       ELSE UNCHANGED <<blk, sp, ub>>
  /\ last' = Did("CopyAssignShared", h, g, "none")
  /\ UNCHANGED <<wp, decl>>

\* SharedPtr<T>::operator=(const SharedPtr<Y>& other_ptr), T = Base, Y = Derived
ConvAssignShared(h, g) ==
  /\ ub = "none" /\ SlotType(h) = "Base" /\ SlotType(g) = "Derived"
  /\ \E o \in Reads(blk, sp[h].ptr_counter) :
       LET B1 == SharedDtor(blk, sp[h].ptr_counter, o)
           b == DynamicCast(B1, sp[g].ptr_counter, SlotType(h))
       IN /\ blk' = IF b # NullBlock THEN IncrementShared(B1, b) ELSE B1
          /\ sp' = [sp EXCEPT ![h] = [ptr_counter |-> b, ptr |-> Get(B1, sp[g])]]
          /\ ub' = First(SharedDtorUb(blk, sp[h].ptr_counter, o), Deref(B1, b))
  /\ last' = Did("ConvAssignShared", h, g, "none")
  /\ UNCHANGED <<wp, decl>>

\* SharedPtr<T>::operator=(SharedPtr&& other_ptr)
MoveAssignShared(h, g) ==
  /\ ub = "none" /\ SlotType(h) = SlotType(g)
  /\ IF h # g
       THEN \E o \in Reads(blk, sp[h].ptr_counter) :
              LET B1 == SharedDtor(blk, sp[h].ptr_counter, o) IN
                /\ blk' = B1
                /\ sp' = [sp EXCEPT ![h] = [ptr_counter |-> sp[g].ptr_counter,
                                            ptr |-> Get(B1, sp[g])],
                                    ![g] = EmptyShared]
                /\ ub' = SharedDtorUb(blk, sp[h].ptr_counter, o)
       ELSE UNCHANGED <<blk, sp, ub>>
  /\ last' = Did("MoveAssignShared", h, g, "none")
  /\ UNCHANGED <<wp, decl>>

\* SharedPtr<T>::reset(): *this = SharedPtr<T>(), then the temporary dies
ResetShared(h) ==
  /\ ub = "none"
  /\ \E o \in Reads(blk, sp[h].ptr_counter) :
       LET B1 == SharedDtor(blk, sp[h].ptr_counter, o)
           tmp == EmptyShared
       IN /\ blk' = SharedDtor(B1, tmp.ptr_counter, <<0, 0>>)
          /\ sp' = [sp EXCEPT ![h] = [ptr_counter |-> tmp.ptr_counter,
                                      ptr |-> Get(B1, tmp)]]
          /\ ub' = SharedDtorUb(blk, sp[h].ptr_counter, o)
  /\ last' = Did("ResetShared", h, 0, "none")
  /\ UNCHANGED <<wp, decl>>

\* SharedPtr<T>::~SharedPtr() at the end of object h's life
DestroyShared(h) ==
  /\ ub = "none"
  /\ \E o \in Reads(blk, sp[h].ptr_counter) :
       /\ blk' = SharedDtor(blk, sp[h].ptr_counter, o)
       /\ ub' = SharedDtorUb(blk, sp[h].ptr_counter, o)
  /\ sp' = [sp EXCEPT ![h] = EmptyShared]
  /\ last' = Did("DestroyShared", h, 0, "none")
  /\ UNCHANGED <<wp, decl>>

\* SharedPtr<T>::operator*(): *ptr_ when ptr_ is set, else the object that
\* get_ptr() of the block returns; ptr_counter_ is not tested, so with neither
\* the call goes through nullptr and what comes back, if anything, is a
\* reference to no object.
DerefOp(h) ==
  /\ ub = "none"
  /\ LET b == sp[h].ptr_counter IN
       IF sp[h].ptr # 0
         THEN /\ last' = Did("Deref", h, 0, "object")
              /\ ub' = "none"
         ELSE IF b # NullBlock
           THEN /\ last' = Did("Deref", h, 0, IF GetPtr(blk, b) # 0 THEN "object"
                                               ELSE "null_reference")
                /\ ub' = First(Deref(blk, b),
                               IF GetPtr(blk, b) # 0 THEN "none"
                               ELSE "null_dereference")
           ELSE /\ ub' = "null_dereference"
                /\ \/ last' = Did("Deref", h, 0, "trap")
                   \/ last' = Did("Deref", h, 0, "null_reference")
  /\ UNCHANGED <<blk, sp, wp, decl>>

\* SharedPtr<T>::operator->(): the pointer get() returns, nullptr included.
ArrowOp(h) ==
  /\ ub = "none"
  /\ last' = Did("Arrow", h, 0, IF Get(blk, sp[h]) # 0 THEN "object" ELSE "null")
  /\ UNCHANGED <<blk, sp, wp, ub, decl>>

\* ----------------------------------------------------------- WeakPtr steps
\* WeakPtr<T>::WeakPtr()
DefaultWeak(w) ==
  /\ ub = "none" /\ wp[w] = EmptyWeak
  /\ wp' = [wp EXCEPT ![w] = EmptyWeak]
  /\ last' = Did("DefaultWeak", w, 0, "none")
  /\ UNCHANGED <<blk, sp, ub, decl>>

\* The incrementing steps stay within the modelled range of weak_count_.
WeakRoom(B, b) ==
  IF b = NullBlock THEN TRUE ELSE B[b].weak_count < MaxWeakCount

\* WeakPtr<T> w(v) for v of the same type WeakPtr<T>: the class declares no
\* copy constructor, the implicitly-declared one copies ptr_counter_.
ImplicitCopyWeak(w, v) ==
  /\ ub = "none" /\ wp[w] = EmptyWeak /\ w # v /\ SameWeakType(w, v)
  /\ wp' = [wp EXCEPT ![w] = [ptr_counter |-> wp[v].ptr_counter]]
  /\ last' = Did("ImplicitCopyWeak", w, v, "none")
  /\ UNCHANGED <<blk, sp, ub, decl>>

\* WeakPtr<T>::WeakPtr(const WeakPtr<Y>& other_ptr), for v of another type
CopyWeak(w, v) ==
  /\ ub = "none" /\ wp[w] = EmptyWeak /\ w # v /\ ~SameWeakType(w, v)
  /\ WeakRoom(blk, wp[v].ptr_counter)
  /\ LET b == wp[v].ptr_counter IN
       /\ blk' = IF b # NullBlock THEN IncrementWeak(blk, b) ELSE blk
       /\ wp' = [wp EXCEPT ![w] = [ptr_counter |-> b]]
       /\ ub' = Deref(blk, b)
  /\ last' = Did("CopyWeak", w, v, "none")
  /\ UNCHANGED <<sp, decl>>

\* WeakPtr<T>::WeakPtr(WeakPtr<Y>&& other_ptr)
MoveWeak(w, v) ==
  /\ ub = "none" /\ wp[w] = EmptyWeak /\ w # v
  /\ wp' = [wp EXCEPT ![w] = [ptr_counter |-> wp[v].ptr_counter],
                      ![v] = EmptyWeak]
  /\ last' = Did("MoveWeak", w, v, "none")
  /\ UNCHANGED <<blk, sp, ub, decl>>

\* WeakPtr<T>::WeakPtr(const SharedPtr<Y>& other_ptr): increment_weak_count()
\* is called through ptr_counter_ without a null check.
WeakFromShared(w, h) ==
  /\ ub = "none" /\ wp[w] = EmptyWeak /\ WeakRoom(blk, sp[h].ptr_counter)
  /\ LET b == sp[h].ptr_counter IN
       IF b # NullBlock
         THEN /\ blk' = IncrementWeak(blk, b)
              /\ wp' = [wp EXCEPT ![w] = [ptr_counter |-> b]]
              /\ last' = Did("WeakFromShared", w, h, "none")
              /\ ub' = Deref(blk, b)
         ELSE /\ ub' = "null_dereference"
              /\ UNCHANGED <<blk, wp>>
              /\ \/ last' = Did("WeakFromShared", w, h, "trap")
                 \/ last' = Did("WeakFromShared", w, h, "none")
  /\ UNCHANGED <<sp, decl>>

\* The object that SharedPtr h manages constructs a member of its own, a
\* WeakPtr<T>, from h: WeakPtr(const SharedPtr<Y>&) on the block of h.  The
\* member lives as long as the object does.
ObserveSelf(h) ==
  /\ ub = "none" /\ sp[h].ptr_counter # NullBlock
  /\ WeakRoom(blk, sp[h].ptr_counter)
  /\ LET b == sp[h].ptr_counter IN
       /\ ~blk[b].self_weak
       /\ blk' = [IncrementWeak(blk, b) EXCEPT ![b].self_weak = TRUE]
       /\ ub' = Deref(blk, b)
  /\ last' = Did("ObserveSelf", h, h, "none")
  /\ UNCHANGED <<sp, wp, decl>>

\* WeakPtr<T>::expired(), for a value o read from the block
Expired(wk, o) == wk.ptr_counter = NullBlock \/ o[1] = 0

ExpiredOp(w) ==
  /\ ub = "none"
  /\ \E o \in Reads(blk, wp[w].ptr_counter) :
       last' = Did("Expired", w, 0, IF Expired(wp[w], o) THEN "true" ELSE "false")
  /\ ub' = Deref(blk, wp[w].ptr_counter)
  /\ UNCHANGED <<blk, sp, wp, decl>>

\* WeakPtr<T>::lock(): expired() ? std::runtime_error(...) : ptr_counter_
LockResult(wk, o) ==
  IF Expired(wk, o) THEN [kind |-> "error", block |-> NullBlock]
                    ELSE [kind |-> "block", block |-> wk.ptr_counter]

\* SharedPtr<T> h = w.lock(): the pointer lock() returns is converted by
\* SharedPtr(BasePtrCounter*).  The expired branch yields a std::runtime_error
\* value, which is no block pointer: no SharedPtr comes into existence.
Lock(w, h) ==
  /\ ub = "none" /\ sp[h] = EmptyShared
  /\ IF wp[w].ptr_counter = NullBlock THEN TRUE
       ELSE blk[wp[w].ptr_counter].family = SlotType(h)
  /\ \E o \in Reads(blk, wp[w].ptr_counter) :
       LET r == LockResult(wp[w], o) IN
         IF r.kind = "block"
           THEN /\ sp' = [sp EXCEPT ![h] = FromBlock(blk, r.block)]
                /\ blk' = IncrementShared(blk, r.block)
                /\ last' = Did("Lock", h, w, "block")
           ELSE /\ UNCHANGED <<sp, blk>>
                /\ last' = Did("Lock", h, w, "error")
  /\ ub' = Deref(blk, wp[w].ptr_counter)
  /\ UNCHANGED <<wp, decl>>

\* w = v for v of the same type WeakPtr<T>: the class declares no copy
\* assignment operator, the implicitly-declared one copies ptr_counter_.
ImplicitCopyAssignWeak(w, v) ==
  /\ ub = "none" /\ SameWeakType(w, v)
  /\ wp' = [wp EXCEPT ![w] = [ptr_counter |-> wp[v].ptr_counter]]
  /\ last' = Did("ImplicitCopyAssignWeak", w, v, "none")
  /\ UNCHANGED <<blk, sp, ub, decl>>

\* WeakPtr<T>::operator=(const WeakPtr<Y>& other_ptr), for v of another type
\* (or named explicitly, w.operator=<T>(v)): increments the weak count of
\* other's block (no null check), runs ~WeakPtr() on *this and leaves
\* ptr_counter_ as it was.
CopyAssignWeak(w, v) ==
  /\ ub = "none" /\ (~SameWeakType(w, v) \/ w = v) /\ WeakRoom(blk, wp[v].ptr_counter)
  /\ IF w # v
       THEN LET b == wp[v].ptr_counter
                B1 == IF b # NullBlock THEN IncrementWeak(blk, b) ELSE blk
            IN /\ \E o \in Reads(B1, wp[w].ptr_counter) :
                    blk' = WeakDtor(B1, wp[w].ptr_counter, o)
               /\ ub' = IF b = NullBlock THEN "null_dereference"
                        ELSE First(Deref(blk, b), Deref(B1, wp[w].ptr_counter))
       ELSE UNCHANGED <<blk, ub>>
  /\ last' = Did("CopyAssignWeak", w, v, "none")
  /\ UNCHANGED <<sp, wp, decl>>

\* The release at the head of WeakPtr<T>::operator=(WeakPtr<Y>&&)
WeakMoveRelease(B, b, o) ==
  IF b # NullBlock /\ o[2] > 0
    THEN LET B1 == DecrementWeak(B, b) IN
         IF o[2] - 1 = 0 /\ o[1] = 0 THEN Deallocate(B1, b) ELSE B1
    ELSE B

\* WeakPtr<T>::operator=(WeakPtr<Y>&& other_ptr)
MoveAssignWeak(w, v) ==
  /\ ub = "none"
  /\ IF w # v
       THEN /\ \E o \in Reads(blk, wp[w].ptr_counter) :
                 blk' = WeakMoveRelease(blk, wp[w].ptr_counter, o)
            /\ wp' = [wp EXCEPT ![w] = [ptr_counter |-> wp[v].ptr_counter],
                                ![v] = EmptyWeak]
            /\ ub' = Deref(blk, wp[w].ptr_counter)
       ELSE UNCHANGED <<blk, wp, ub>>
  /\ last' = Did("MoveAssignWeak", w, v, "none")
  /\ UNCHANGED <<sp, decl>>

\* WeakPtr<T>::~WeakPtr() at the end of object w's life
DestroyWeak(w) ==
  /\ ub = "none"
  /\ \E o \in Reads(blk, wp[w].ptr_counter) :
       blk' = WeakDtor(blk, wp[w].ptr_counter, o)
  /\ ub' = Deref(blk, wp[w].ptr_counter)
  /\ wp' = [wp EXCEPT ![w] = EmptyWeak]
  /\ last' = Did("DestroyWeak", w, 0, "none")
  /\ UNCHANGED <<sp, decl>>

\* ------------------------------------------------------------ specification
Next ==
  \/ \E h \in SharedIds : DefaultShared(h)
  \/ \E h \in SharedIds : RawShared(h)
  \/ \E h, g \in SharedIds : BlockShared(h, g)
  \/ \E h \in SharedIds : MakeShared(h)
  \/ \E h, g \in SharedIds : CopyShared(h, g)
  \/ \E h, g \in SharedIds : MoveShared(h, g)
  \/ \E h, g \in SharedIds : CopyAssignShared(h, g)
  \/ \E h, g \in SharedIds : ConvAssignShared(h, g)
  \/ \E h, g \in SharedIds : MoveAssignShared(h, g)
  \/ \E h \in SharedIds : ResetShared(h)
  \/ \E h \in SharedIds : DestroyShared(h)
  \/ \E w \in WeakIds : DefaultWeak(w)
  \/ \E w, v \in WeakIds : ImplicitCopyWeak(w, v)
  \/ \E w, v \in WeakIds : CopyWeak(w, v)
  \/ \E w, v \in WeakIds : MoveWeak(w, v)
  \/ \E w \in WeakIds, h \in SharedIds : WeakFromShared(w, h)
  \/ \E w \in WeakIds : ExpiredOp(w)
  \/ \E w \in WeakIds, h \in SharedIds : Lock(w, h)
  \/ \E w, v \in WeakIds : ImplicitCopyAssignWeak(w, v)
  \/ \E w, v \in WeakIds : CopyAssignWeak(w, v)
  \/ \E w, v \in WeakIds : MoveAssignWeak(w, v)
  \/ \E w \in WeakIds : DestroyWeak(w)

Spec == Init /\ [][Next]_vars

\* The steps of SharedPtr alone: construction, copy, move, assignment, reset
\* and destruction, with no WeakPtr and no converting assignment.
NextShared ==
  \/ \E h \in SharedIds : DefaultShared(h)
  \/ \E h \in SharedIds : RawShared(h)
  \/ \E h, g \in SharedIds : BlockShared(h, g)
  \/ \E h \in SharedIds : MakeShared(h)
  \/ \E h, g \in SharedIds : CopyShared(h, g)
  \/ \E h, g \in SharedIds : MoveShared(h, g)
  \/ \E h, g \in SharedIds : CopyAssignShared(h, g)
  \/ \E h, g \in SharedIds : MoveAssignShared(h, g)
  \/ \E h \in SharedIds : ResetShared(h)
  \/ \E h \in SharedIds : DestroyShared(h)

SpecShared == Init /\ [][NextShared]_vars

\* The steps of SharedPtr, with a MakeShared whose object's constructor throws.
NextFactory ==
  \/ NextShared
  \/ \E h \in SharedIds : MakeSharedThrow(h)

SpecFactory == Init /\ [][NextFactory]_vars

\* The steps of SharedPtr, with the accesses to the object through a SharedPtr.
NextAccess ==
  \/ NextShared
  \/ \E h \in SharedIds : DerefOp(h)
  \/ \E h \in SharedIds : ArrowOp(h)

SpecAccess == Init /\ [][NextAccess]_vars

\* The steps of SharedPtr and the construction and destruction of WeakPtr,
\* for objects that may have a WeakPtr on their own block as a member.
NextReentrant ==
  \/ NextShared
  \/ \E h \in SharedIds : ObserveSelf(h)
  \/ \E w \in WeakIds, h \in SharedIds : WeakFromShared(w, h)
  \/ \E w \in WeakIds : DestroyWeak(w)

SpecReentrant == Init /\ [][NextReentrant]_vars

\* The steps of SharedPtr, with control blocks that the caller makes and on
\* which the caller calls destroy().
NextBlock ==
  \/ NextShared
  \/ \E h \in SharedIds : CombinedShared(h)
  \/ \E h \in SharedIds : CallDestroy(h)

SpecBlock == Init /\ [][NextBlock]_vars

\* ------------------------------------------------------------------ claims
SharedOn(b) == {h \in SharedIds : sp[h].ptr_counter = b}
WeakOn(b) == {w \in WeakIds : wp[w].ptr_counter = b}
Allocated == {b \in BlockIds : blk[b].allocated}
SharedReleaseOps ==
  {"DestroyShared", "ResetShared", "CopyAssignShared", "MoveAssignShared",
   "ConvAssignShared"}

\* C1: the storage of every block is released exactly once, at the step after
\* which strong and weak count are both 0: never twice, and never while a
\* count is above 0.
C1_StorageReleasedExactlyOnce ==
  [][\A b \in BlockIds :
       /\ blk'[b].dealloc_calls <= 1
       /\ blk'[b].dealloc_calls # blk[b].dealloc_calls
            => blk'[b].shared_count = 0 /\ blk'[b].weak_count = 0
       /\ (blk'[b].allocated /\ blk'[b].shared_count = 0 /\ blk'[b].weak_count = 0)
            => blk'[b].dealloc_calls = 1]_vars

\* C2: destroy() runs exactly once per block, in exactly the SharedPtr release
\* that takes the strong count from 1 to 0, weak handles or not, and in no
\* other operation.
C2_DestroyedOnceAtLastStrongRelease ==
  [][\A b \in BlockIds :
       /\ blk'[b].destroy_calls <= 1
       /\ blk'[b].allocated =>
            (blk'[b].shared_count = 0 <=> blk'[b].destroy_calls = 1)
       /\ blk'[b].destroy_calls # blk[b].destroy_calls
            => /\ last'.op \in SharedReleaseOps
               /\ blk[b].shared_count = 1 /\ blk'[b].shared_count = 0
               /\ sp[last'.dst].ptr_counter = b
       /\ (blk[b].shared_count = 1 /\ blk'[b].shared_count = 0)
            => blk[b].destroy_calls = 0 /\ blk'[b].destroy_calls = 1]_vars

\* A SharedPtr release has destroyed the object of a block that WeakPtrs
\* still reference and whose storage is kept.
C2_Witness ==
  \E b \in BlockIds :
    /\ last.op \in SharedReleaseOps
    /\ blk[b].destroy_calls = 1 /\ blk[b].dealloc_calls = 0
    /\ blk[b].shared_count = 0 /\ blk[b].weak_count > 0
    /\ WeakOn(b) # {}

\* C3: use_count() of a SharedPtr with a block is the number of live SharedPtr
\* objects on that block, and use_count() of an empty SharedPtr is 0.
C3_UseCountIsNumberOfOwners ==
  \A h \in SharedIds :
    \A o \in Reads(blk, sp[h].ptr_counter) :
      UseCount(sp[h], o) =
        IF sp[h].ptr_counter = NullBlock THEN 0
        ELSE Cardinality(SharedOn(sp[h].ptr_counter))

\* Two SharedPtr objects own one block after an assignment.
C3_Witness ==
  \E h, g \in SharedIds :
    /\ h # g /\ sp[h].ptr_counter # NullBlock
    /\ sp[h].ptr_counter = sp[g].ptr_counter
    /\ blk[sp[h].ptr_counter].shared_count = 2
    /\ last.op \in {"CopyAssignShared", "MoveAssignShared"}

\* C4: the weak count of every block is the number of live WeakPtr objects on
\* it, and after the copy assignment w1 = w2 (w1 on block X, w2 on another
\* block Y) w1 references Y, Y's weak count is up by 1 and X's is down by 1.
C4_WeakCountIsNumberOfObservers ==
  [][/\ \A b \in Allocated' :
          blk'[b].dealloc_calls = 0 => blk'[b].weak_count = Cardinality(WeakOn(b)')
     /\ \A w, v \in WeakIds :
          LET X == wp[w].ptr_counter
              Y == wp[v].ptr_counter
          IN (/\ last'.op \in {"CopyAssignWeak", "ImplicitCopyAssignWeak"}
              /\ last'.dst = w /\ last'.src = v
              /\ X # NullBlock /\ Y # NullBlock /\ X # Y)
             => /\ wp'[w].ptr_counter = Y
                /\ blk'[Y].weak_count = blk[Y].weak_count + 1
                /\ blk'[X].weak_count = blk[X].weak_count - 1]_vars

\* The address of the T object that block b manages.
ManagedObject(B, b) ==
  IF B[b].pointee = "NonDirectPtrCounter" \/ B[b].variant = "Combined"
    THEN EmbeddedObject(b) ELSE b

\* C5: lock() on a WeakPtr whose block has strong count >= 1 yields a SharedPtr
\* on the same block: strong count up by exactly 1, weak count unchanged, and
\* get() of the new SharedPtr is the managed object.
C5_LockSharesOwnership ==
  [][\A w \in WeakIds, h \in SharedIds :
       LET b == wp[w].ptr_counter IN
         (/\ last'.op = "Lock" /\ last'.dst = h /\ last'.src = w
          /\ b # NullBlock
          /\ IF b = NullBlock THEN FALSE ELSE blk[b].shared_count >= 1)
         => /\ last'.res = "block"
            /\ sp'[h].ptr_counter = b
            /\ blk'[b].shared_count = blk[b].shared_count + 1
            /\ blk'[b].weak_count = blk[b].weak_count
            /\ Get(blk', sp'[h]) = ManagedObject(blk, b)
            /\ blk'[b].destroy_calls = 0
            /\ ub' = "none"]_vars

\* C6: for a WeakPtr on a block with strong count 0 and weak count > 0, and for
\* an empty WeakPtr, expired() is true and lock() returns an empty SharedPtr
\* as a normal value: no error, no count changed.
C6_ExpiredLockReturnsEmptyHandle ==
  [][\A w \in WeakIds :
       LET b == wp[w].ptr_counter
           stale == IF b = NullBlock THEN TRUE
                    ELSE /\ blk[b].dealloc_calls = 0
                         /\ blk[b].shared_count = 0 /\ blk[b].weak_count > 0
       IN /\ (stale /\ last'.op = "Expired" /\ last'.dst = w)
               => last'.res = "true" /\ blk' = blk
          /\ (stale /\ last'.op = "Lock" /\ last'.src = w)
               => /\ last'.res # "error"
                  /\ sp'[last'.dst] = EmptyShared
                  /\ blk' = blk]_vars

\* C7: a block that no live SharedPtr and no live WeakPtr references has had
\* its object destroyed and its storage released.
C7_NoBlockLeaks ==
  \A b \in Allocated :
    (SharedOn(b) = {} /\ WeakOn(b) = {})
      => blk[b].destroy_calls >= 1 /\ blk[b].dealloc_calls >= 1

\* C8: the converting assignment b = d of a non-empty SharedPtr<Derived> d to a
\* SharedPtr<Base> b makes b share d's block: strong count up by exactly 1,
\* equal use_count(), equal get().
C8_ConvertingAssignmentShares ==
  [][\A h, g \in SharedIds :
       LET d == sp[g].ptr_counter IN
         (last' = Did("ConvAssignShared", h, g, "none") /\ d # NullBlock)
         => /\ sp'[h].ptr_counter = d
            /\ blk'[d].shared_count = blk[d].shared_count + 1
            /\ \A o \in Reads(blk', d) :
                 UseCount(sp'[h], o) = UseCount(sp'[g], o)
            /\ Get(blk', sp'[h]) = Get(blk', sp'[g])]_vars

\* The counts a move may leave block b with, from count n: n itself, or one
\* less when the destination was on b before and its own release came first.
Moved(n, old, b) == IF old = b /\ n > 0 THEN {n, n - 1} ELSE {n}

AssignOps ==
  {"CopyAssignShared", "MoveAssignShared", "ImplicitCopyAssignWeak",
   "CopyAssignWeak", "MoveAssignWeak"}

\* C10: the self-assignment h = h (copy or move, SharedPtr or WeakPtr) changes
\* nothing: the counts, the handles, the object and the storage stay as they are.
C10_SelfAssignmentIsNoOp ==
  [][(last'.op \in AssignOps /\ last'.dst = last'.src)
       => UNCHANGED <<blk, sp, wp, ub>>]_vars

\* The only owner of a live block has been assigned to itself.
C10_Witness ==
  /\ last.op = "CopyAssignShared" /\ last.dst = last.src
  /\ sp[last.dst].ptr_counter # NullBlock
  /\ blk[sp[last.dst].ptr_counter].shared_count = 1
  /\ blk[sp[last.dst].ptr_counter].destroy_calls = 0

\* C11: MakeShared allocates exactly once, a NonDirectPtrCounter that is the
\* control block, and the SharedPtr it returns is the only handle on it:
\* use_count() 1, weak count 0, get() the embedded object, the object alive.
C11_FactoryMakesOneCombinedBlock ==
  [][\A h \in SharedIds :
       LET b == sp'[h].ptr_counter IN
         (last'.op = "MakeShared" /\ last'.dst = h /\ last'.res = "none")
         => /\ b # NullBlock
            /\ IF b = NullBlock THEN FALSE
               ELSE /\ ~blk[b].allocated /\ blk'[b].allocated
                    /\ blk'[b].variant = "Combined"
                    /\ AllocationsFor(blk', b) = 1
                    /\ {g \in SharedIds : sp'[g].ptr_counter = b} = {h}
                    /\ {w \in WeakIds : wp'[w].ptr_counter = b} = {}
                    /\ \A o \in Reads(blk', b) : UseCount(sp'[h], o) = 1
                    /\ blk'[b].weak_count = 0
                    /\ Get(blk', sp'[h]) = ManagedObject(blk', b)
                    /\ blk'[b].destroy_calls = 0 /\ blk'[b].dealloc_calls = 0]_vars

\* The blocks whose storage the allocator has handed out and not got back.
Held(B) == {b \in BlockIds : B[b].allocated /\ ~Released(B, b)}

\* C12: a MakeShared whose object's constructor throws gives the storage it
\* allocated back before the exception leaves it: the storage held is what it
\* was before the call, and no handle refers to the failed block.
C12_FailedFactoryReleasesItsAllocation ==
  [][(last'.op = "MakeShared" /\ last'.res = "throw")
       => /\ Held(blk') = Held(blk)
          /\ sp' = sp /\ wp' = wp]_vars

\* C13: constructing a WeakPtr from a SharedPtr without a block is rejected
\* with a guarded error: the program stays within defined behaviour, no
\* WeakPtr comes out of it and no count of any block changes.
C13_WeakFromEmptySharedIsRejected ==
  [][\A w \in WeakIds, h \in SharedIds :
       (/\ last'.op = "WeakFromShared" /\ last'.dst = w /\ last'.src = h
        /\ sp[h].ptr_counter = NullBlock)
       => /\ last'.res = "error" /\ ub' = "none"
          /\ wp'[w] = EmptyWeak
          /\ blk' = blk]_vars

\* C14: operator* and operator-> on a SharedPtr with neither a block nor a
\* pointer fail with a guarded error: neither hands a null or invalid object
\* to the caller as its result, and the program stays within defined behaviour.
C14_EmptyAccessFailsLoudly ==
  [][\A h \in SharedIds :
       (last'.op \in {"Deref", "Arrow"} /\ last'.dst = h /\ sp[h] = EmptyShared)
       => last'.res = "error" /\ ub' = "none"]_vars

\* The stage of block b's life in heap B, read off its counts and the calls
\* made on it.
Phase(B, b) ==
  IF ~B[b].allocated THEN "Unallocated"
  ELSE IF B[b].dealloc_calls > 0 /\ B[b].destroy_calls > 0 THEN "StorageReleased"
  ELSE IF B[b].dealloc_calls > 0 THEN "ReleasedUndestroyed"
  ELSE IF B[b].shared_count = 0 /\ B[b].destroy_calls > 0 THEN "ObjectDestroyed"
  ELSE IF B[b].shared_count > 0 /\ B[b].destroy_calls = 0 THEN "Live"
  ELSE "Inconsistent"

PhaseRank(p) ==
  CASE p = "Unallocated" -> 0
    [] p = "Live" -> 1
    [] p = "ObjectDestroyed" -> 2
    [] p = "StorageReleased" -> 3
    [] OTHER -> 4

\* C15: every block goes Live -> ObjectDestroyed -> StorageReleased and never
\* back: deallocate() never runs on a block whose object was not destroyed,
\* destroy() never runs after deallocate(), and a block whose strong count is
\* 0 never has a strong count above 0 again.
C15_LifecycleIsMonotone ==
  [][\A b \in BlockIds :
       /\ PhaseRank(Phase(blk', b)) <= 3
       /\ PhaseRank(Phase(blk, b)) <= PhaseRank(Phase(blk', b))
       /\ blk'[b].dealloc_calls # blk[b].dealloc_calls
            => blk'[b].destroy_calls >= 1 /\ blk'[b].shared_count = 0
       /\ blk'[b].destroy_calls # blk[b].destroy_calls
            => Phase(blk, b) = "Live" /\ Phase(blk', b) # "Live"
       /\ (blk[b].allocated /\ blk[b].shared_count = 0)
            => blk'[b].shared_count = 0]_vars

\* The last WeakPtr has released the storage of a block whose object the last
\* SharedPtr had destroyed before.
C15_Witness ==
  \E b \in BlockIds :
    /\ last.op = "DestroyWeak" /\ ub = "none"
    /\ Phase(blk, b) = "StorageReleased"
    /\ blk[b].destroy_calls = 1 /\ blk[b].dealloc_calls = 1
    /\ blk[b].weak_count = 0

\* C17: when the release of the last SharedPtr destroys an object that has
\* the last WeakPtr on its own block, so that ~WeakPtr() runs inside destroy(),
\* the storage of the block is released exactly once and ~SharedPtr() reads no
\* count of the block after the release.
C17_ReentrantReleaseIsSafe ==
  [][\A b \in BlockIds :
       (/\ blk[b].self_weak /\ blk[b].weak_count = 1
        /\ blk[b].destroy_calls = 0 /\ blk'[b].destroy_calls = 1)
       => /\ blk'[b].dealloc_calls = 1
          /\ ub' = "none"]_vars

\* The block that made the allocation at address a: a itself, or the block
\* whose NonDirectPtrCounter has its member ptr_obj_ at a.
BlockOfAddress(a) == IF a > MaxBlocks THEN a - MaxBlocks ELSE a

\* C16: no handle dangles.  Every SharedPtr and every WeakPtr with a block is
\* on a block whose storage has not been released, no step has read or written
\* a released block, and get() of every SharedPtr is null or the address of an
\* object that has not been destroyed, after a converting assignment as well.
C16_NoHandleDangles ==
  /\ \A h \in SharedIds :
       sp[h].ptr_counter # NullBlock => ~Released(blk, sp[h].ptr_counter)
  /\ \A w \in WeakIds :
       wp[w].ptr_counter # NullBlock => ~Released(blk, wp[w].ptr_counter)
  /\ ub # "use_after_free"
  /\ \A h \in SharedIds :
       \/ sp[h].ptr_counter # NullBlock /\ Released(blk, sp[h].ptr_counter)
       \/ Get(blk, sp[h]) = 0
       \/ blk[BlockOfAddress(Get(blk, sp[h]))].destroy_calls = 0

\* The blocks of MakeShared and the NonDirectPtrCounter blocks: the object
\* lies inside a NonDirectPtrCounter.
FactoryMade(B, b) ==
  B[b].allocated /\ (B[b].variant = "Combined" \/ B[b].pointee = "NonDirectPtrCounter")

\* C18: destroy() on a block whose object lies in a NonDirectPtrCounter ends
\* the life of the object and hands no memory to operator delete; the memory
\* is freed by deallocate() alone, once.
C18_CombinedDestroyFreesNothing ==
  [][\A b \in BlockIds :
       FactoryMade(blk', b)
       => /\ blk'[b].deleted = 0
          /\ blk'[b].dealloc_calls <= 1
          /\ (blk'[b].shared_count = 0 /\ blk'[b].weak_count = 0)
               => blk'[b].dealloc_calls = 1]_vars

\* C19: destroy() called on a block whose object is already destroyed, a
\* DirectPtrCounter or a NonDirectPtrCounter, is a no-op: the deleter is not
\* applied again and the block stays as the first call left it.
C19_DestroyIsIdempotent ==
  [][\A h \in SharedIds :
       LET b == sp[h].ptr_counter IN
         (/\ last'.op = "CallDestroy" /\ last'.dst = h /\ b # NullBlock
          /\ IF b = NullBlock THEN FALSE ELSE blk[b].destroy_calls >= 1)
         => /\ blk'[b].deleted = blk[b].deleted
            /\ blk' = [blk EXCEPT ![b].destroy_calls = blk'[b].destroy_calls]
            /\ ub' = "none"]_vars

WeakReleaseOps == {"DestroyWeak", "CopyAssignWeak", "MoveAssignWeak"}

\* C20: no count underflows.  No step takes a count from 0 to the largest
\* value, and a release that finds the count of its block at 0 is trapped, or
\* at least leaves the count equal to the number of live handles on the block.
C20_NoCountUnderflows ==
  [][/\ \A b \in BlockIds :
          /\ ~(blk[b].shared_count = 0 /\ blk'[b].shared_count = CountMax)
          /\ ~(blk[b].weak_count = 0 /\ blk'[b].weak_count = CountMax)
     /\ \A h \in SharedIds :
          LET b == sp[h].ptr_counter IN
            (/\ last'.op \in SharedReleaseOps /\ last'.dst = h /\ last'.dst # last'.src
             /\ b # NullBlock
             /\ IF b = NullBlock THEN FALSE
                ELSE ~Released(blk, b) /\ blk[b].shared_count = 0)
            => \/ last'.res = "trap"
               \/ blk'[b].shared_count =
                    Cardinality({g \in SharedIds : sp'[g].ptr_counter = b})
     /\ \A w \in WeakIds :
          LET b == wp[w].ptr_counter IN
            (/\ last'.op \in WeakReleaseOps /\ last'.dst = w /\ last'.dst # last'.src
             /\ b # NullBlock
             /\ IF b = NullBlock THEN FALSE
                ELSE ~Released(blk, b) /\ blk[b].weak_count = 0)
            => \/ last'.res = "trap"
               \/ blk'[b].weak_count =
                    Cardinality({v \in WeakIds : wp'[v].ptr_counter = b})]_vars

=============================================================================
